---------------------------- MODULE Spec2Model ----------------------------
(***************************************************************************)
(* A model of greenfloor-native (src/greenfloor-native/src/lib.rs): the    *)
(* two entry points validate_offer and from_input_spend_bundle_xch, and    *)
(* the helpers parse_bytes32 and to_py_value_error.                        *)
(*                                                                         *)
(* Every invocation is a call c with its own program counter and locals.   *)
(* The functions of the chia crates that lib.rs calls are not part of the  *)
(* source.  Each is kept uninterpreted: its result is the term of the call *)
(* (the function applied to its arguments, the working context included),  *)
(* and whether it returns Ok or Err is not known from the source, so both  *)
(* outcomes are possible.  The two decoders take byte strings, which are   *)
(* named by tokens that say whether the bytes decode.                      *)
(***************************************************************************)
EXTENDS Integers, Sequences, FiniteSets, TLC

VARIABLES
    args,                \* call -> the arguments of the invocation
    pc,                  \* call -> the place the call has reached
    spend_bundle,        \* call -> <<>> or <<the decoded SpendBundle>>
    requested_payments,  \* call -> the RequestedPayments under construction
    ctx,                 \* call -> the call's SpendContext (operations applied to it)
    handed,              \* call -> <<>> or <<arguments given to Offer::from_input_spend_bundle>>
    offer,               \* call -> <<>> or <<the Offer>>
    offer_spend_bundle,  \* call -> <<>> or <<the SpendBundle of the Offer>>
    ret,                 \* call -> the value returned to the caller
    trace                \* call -> the steps the call has executed, in order

vars == <<args, pc, spend_bundle, requested_payments, ctx, handed, offer,
          offer_spend_bundle, ret, trace>>

(***************************************************************************)
(* Bounds of the model.                                                    *)
(***************************************************************************)
\* identifiers (nonces plus puzzle hashes) in one request
MaxIdentifiers == 4

(***************************************************************************)
(* Program constants.                                                      *)
(***************************************************************************)
Bytes32Len == 32

(***************************************************************************)
(* Input values.                                                           *)
(***************************************************************************)
Rep(b, n) == [i \in 1..n |-> b]

\* byte buffers offered as identifiers: two of the right length, one short, one long
Buffers == { Rep(17, Bytes32Len), Rep(34, Bytes32Len),
             Rep(17, Bytes32Len - 1), Rep(34, Bytes32Len + 1) }

\* u64 amounts as 8 big-endian bytes: 0, 500 and 2^64 - 1
U64Zero == Rep(0, 8)
U64FiveHundred == <<0, 0, 0, 0, 0, 0, 1, 244>>
U64Max == Rep(255, 8)
Amounts == { U64Zero, U64FiveHundred, U64Max }

\* byte strings offered as spend_bundle_bytes, by name
SpendBundleBytes == { "bundle_wellformed", "bundle_malformed" }
\* strings offered as offers, by name
OfferStrings == { "offer_wellformed", "offer_malformed" }

\* the shapes of a request: the number of payments of each entry, the entries
\* together holding exactly k identifiers (one nonce and one hash per payment)
ShapesOfSize[k \in 0..(MaxIdentifiers + 1)] ==
    IF k = 0 THEN { <<>> }
    ELSE UNION { { Append(s, j - 1) : s \in ShapesOfSize[k - j] } : j \in 1..k }

RECURSIVE SumTo(_, _)
SumTo(shape, i) == IF i = 0 THEN 0 ELSE shape[i] + SumTo(shape, i - 1)

\* Vec<(Vec<u8>, Vec<(Vec<u8>, u64)>)> of the given shape, filled with the
\* identifiers ids and the amounts amts in sequence order
RequestOf(shape, ids, amts) ==
    [i \in 1..Len(shape) |->
        <<ids[SumTo(shape, i - 1) + i],
          [j \in 1..shape[i] |->
              <<ids[SumTo(shape, i - 1) + i + j], amts[SumTo(shape, i - 1) + j]>>]>>]

AssembleCall(b, r) ==
    [fn |-> "from_input_spend_bundle_xch", offer |-> "",
     spend_bundle_bytes |-> b, requested_payments_xch |-> r]

ValidateArgs ==
    { [fn |-> "validate_offer", offer |-> o,
       spend_bundle_bytes |-> "", requested_payments_xch |-> <<>>]
      : o \in OfferStrings }

(***************************************************************************)
(* Results: PyResult<T>.                                                   *)
(***************************************************************************)
Pending == [status |-> "pending", bytes |-> <<>>, err |-> <<>>]
Ok(bytes) == [status |-> "ok", bytes |-> bytes, err |-> <<>>]
Err(e) == [status |-> "err", bytes |-> <<>>, err |-> <<e>>]

\* PyValueError::new_err(message)
PyValueError(msg, origin) == [exc |-> "ValueError", msg |-> msg, origin |-> origin]

\* to_py_value_error: the library error's Display text, a function of the failed call
to_py_value_error(libcall, term) == PyValueError("", <<[call |-> libcall, term |-> term]>>)

(***************************************************************************)
(* parse_bytes32: raw.try_into::<[u8; 32]>() succeeds exactly on slices of *)
(* 32 bytes and copies them.                                               *)
(***************************************************************************)
\* a faulty variant: a short buffer is accepted and padded with zeros
parse_bytes32_lenient(raw, field) ==
    IF Len(raw) <= Bytes32Len
    THEN [ok |-> TRUE, val |-> [i \in 1..Bytes32Len |-> IF i <= Len(raw) THEN raw[i] ELSE 0],
          err |-> <<>>]
    ELSE [ok |-> FALSE, val |-> <<>>,
          err |-> <<PyValueError(field \o " must be 32 bytes", <<>>)>>]

\* fn parse_bytes32(raw: &[u8], field: &str) -> PyResult<Bytes32>
parse_bytes32(raw, field) ==
    IF Len(raw) = Bytes32Len
    THEN [ok |-> TRUE, val |-> [i \in 1..Bytes32Len |-> raw[i]], err |-> <<>>]
    ELSE [ok |-> FALSE, val |-> <<>>,
          err |-> <<PyValueError(field \o " must be 32 bytes", <<>>)>>]

(***************************************************************************)
(* Constructors of the values lib.rs builds.                               *)
(***************************************************************************)
MemosNone == "Memos::None"
Payment_new(puzzle_hash, amount, memos) ==
    [puzzle_hash |-> puzzle_hash, amount |-> amount, memos |-> memos]
NotarizedPayment_new(nonce, payments) == [nonce |-> nonce, payments |-> payments]
\* the native-asset slot, and the slots of the token classes
RequestedPayments_new == [xch |-> <<>>, tokens |-> <<>>]
AssetInfo_new == [assets |-> <<>>]

\* a faulty variant: the amount is narrowed to its low 32 bits
push_payment_u32(payments, puzzle_hash, amount) ==
    Append(payments,
           Payment_new(puzzle_hash, [i \in 1..8 |-> IF i <= 4 THEN 0 ELSE amount[i]], MemosNone))

\* payments.push(Payment::new(puzzle_hash, amount, Memos::None))
push_payment(payments, puzzle_hash, amount) ==
    Append(payments, Payment_new(puzzle_hash, amount, MemosNone))

\* a faulty variant: an entry whose nonce is already present is dropped
push_xch_dedup(rp, nonce, payments) ==
    IF \E k \in 1..Len(rp.xch) : rp.xch[k].nonce = nonce
    THEN rp
    ELSE [rp EXCEPT !.xch = Append(@, NotarizedPayment_new(nonce, payments))]

\* requested_payments.xch.push(NotarizedPayment::new(nonce, payments))
push_xch(rp, nonce, payments) ==
    [rp EXCEPT !.xch = Append(@, NotarizedPayment_new(nonce, payments))]

\* one step of a call, as recorded in trace
Event(ev, entry, payment, ok) == [ev |-> ev, entry |-> entry, payment |-> payment, ok |-> ok]

(***************************************************************************)
(* The loops of from_input_spend_bundle_xch.                               *)
(***************************************************************************)
\* for (puzzle_hash_raw, amount) in payments_raw { ... }
RECURSIVE PaymentsLoop(_, _, _, _, _)
PaymentsLoop(payments_raw, j, payments, log, i) ==
    IF j > Len(payments_raw)
    THEN [ok |-> TRUE, payments |-> payments, log |-> log, err |-> <<>>]
    ELSE LET r == parse_bytes32(payments_raw[j][1], "puzzle_hash")
             log2 == Append(log, Event("puzzle_hash", i, j, r.ok))
         IN  IF ~r.ok
             THEN [ok |-> FALSE, payments |-> payments, log |-> log2, err |-> r.err]
             ELSE PaymentsLoop(payments_raw, j + 1,
                               push_payment(payments, r.val, payments_raw[j][2]), log2, i)

\* a faulty variant: the payments are parsed before the nonce
ParseEntryPaymentsFirst(entry, i) ==
    LET p == PaymentsLoop(entry[2], 1, <<>>, <<>>, i)
        n == parse_bytes32(entry[1], "nonce")
    IN  IF ~p.ok
        THEN [ok |-> FALSE, nonce |-> <<>>, payments |-> <<>>, log |-> p.log, err |-> p.err]
        ELSE [ok |-> n.ok, nonce |-> n.val, payments |-> p.payments,
              log |-> Append(p.log, Event("nonce", i, 0, n.ok)), err |-> n.err]

\* the body of the outer loop up to the push: the nonce, then the payments
ParseEntry(entry, i) ==
    LET n == parse_bytes32(entry[1], "nonce")
        first == <<Event("nonce", i, 0, n.ok)>>
    IN  IF ~n.ok
        THEN [ok |-> FALSE, nonce |-> <<>>, payments |-> <<>>, log |-> first, err |-> n.err]
        ELSE LET p == PaymentsLoop(entry[2], 1, <<>>, first, i)
             IN  [ok |-> p.ok, nonce |-> n.val, payments |-> p.payments,
                  log |-> p.log, err |-> p.err]

\* for (nonce_raw, payments_raw) in requested_payments_xch { ... }
RECURSIVE RequestsLoop(_, _, _, _)
RequestsLoop(reqs, i, rp, log) ==
    IF i > Len(reqs)
    THEN [ok |-> TRUE, requested_payments |-> rp, log |-> log, err |-> <<>>]
    ELSE LET e == ParseEntry(reqs[i], i)
         IN  IF ~e.ok
             THEN [ok |-> FALSE, requested_payments |-> rp, log |-> log \o e.log, err |-> e.err]
             ELSE RequestsLoop(reqs, i + 1, push_xch(rp, e.nonce, e.payments), log \o e.log)

(***************************************************************************)
(* The library.                                                            *)
(***************************************************************************)
\* SpendBundle::from_bytes
SpendBundle_from_bytes(bytes) ==
    IF bytes = "bundle_malformed"
    THEN [ok |-> FALSE, val |-> <<>>]
    ELSE [ok |-> TRUE, val |-> <<[decoded_from |-> bytes]>>]

\* decode_offer
decode_offer(str) ==
    IF str = "offer_malformed"
    THEN [ok |-> FALSE, val |-> <<>>]
    ELSE [ok |-> TRUE, val |-> <<[decoded_from |-> str]>>]

\* SpendContext::new()
SpendContext_new == <<>>

\* Result<_, _> of a library call: Ok or Err
LibraryOutcomes == BOOLEAN

\* what a library call leaves in the context it was given
Applied(context, op, sb, rp) == Append(context, [op |-> op, spend_bundle |-> sb, requested_payments |-> rp])

(***************************************************************************)
(* Initial states.                                                         *)
(***************************************************************************)
InitCalls(invoked) ==
    LET calls == DOMAIN invoked
    IN  /\ args = invoked
        /\ pc = [c \in calls |-> "start"]
        /\ spend_bundle = [c \in calls |-> <<>>]
        /\ requested_payments = [c \in calls |-> RequestedPayments_new]
        /\ ctx = [c \in calls |-> <<>>]
        /\ handed = [c \in calls |-> <<>>]
        /\ offer = [c \in calls |-> <<>>]
        /\ offer_spend_bundle = [c \in calls |-> <<>>]
        /\ ret = [c \in calls |-> Pending]
        /\ trace = [c \in calls |-> <<>>]

\* one invocation: any offer, or any bundle bytes with any request of at most
\* MaxIdentifiers identifiers
Init ==
    \/ \E a \in ValidateArgs : InitCalls([c \in {1} |-> a])
    \/ \E k \in 0..MaxIdentifiers : \E shape \in ShapesOfSize[k] :
          \E ids \in [1..k -> Buffers] :
             \E amts \in [1..SumTo(shape, Len(shape)) -> Amounts] :
                \E b \in SpendBundleBytes :
                   InitCalls([c \in {1} |-> AssembleCall(b, RequestOf(shape, ids, amts))])

Calls == DOMAIN pc

(***************************************************************************)
(* from_input_spend_bundle_xch                                             *)
(***************************************************************************)
Return(c, value) ==
    /\ ret' = [ret EXCEPT ![c] = value]
    /\ pc' = [pc EXCEPT ![c] = "done"]

\* line 36
Decode(c) ==
    /\ pc[c] = "start"
    /\ args[c].fn = "from_input_spend_bundle_xch"
    /\ LET r == SpendBundle_from_bytes(args[c].spend_bundle_bytes)
       IN  /\ trace' = [trace EXCEPT ![c] = Append(@, Event("decode", 0, 0, r.ok))]
           /\ IF r.ok
              THEN /\ spend_bundle' = [spend_bundle EXCEPT ![c] = r.val]
                   /\ pc' = [pc EXCEPT ![c] = "parse"]
                   /\ UNCHANGED ret
              ELSE /\ Return(c, Err(to_py_value_error("SpendBundle::from_bytes",
                                                      <<args[c].spend_bundle_bytes>>)))
                   /\ UNCHANGED spend_bundle
    /\ UNCHANGED <<args, requested_payments, ctx, handed, offer, offer_spend_bundle>>

\* lines 38-49
BuildRequestedPayments(c) ==
    /\ pc[c] = "parse"
    /\ LET r == RequestsLoop(args[c].requested_payments_xch, 1, RequestedPayments_new, <<>>)
       IN  /\ trace' = [trace EXCEPT ![c] = @ \o r.log]
           /\ IF r.ok
              THEN /\ requested_payments' = [requested_payments EXCEPT ![c] = r.requested_payments]
                   /\ pc' = [pc EXCEPT ![c] = "construct"]
                   /\ UNCHANGED ret
              ELSE /\ Return(c, Err(r.err[1]))
                   /\ UNCHANGED requested_payments
    /\ UNCHANGED <<args, spend_bundle, ctx, handed, offer, offer_spend_bundle>>

\* lines 51-58
Construct(c) ==
    /\ pc[c] = "construct"
    /\ LET fresh == SpendContext_new
           given == [spend_bundle |-> spend_bundle[c][1],
                     requested_payments |-> requested_payments[c],
                     asset_info |-> AssetInfo_new]
           term == [ctx |-> fresh, given |-> given]
           after == Applied(fresh, "from_input_spend_bundle",
                            given.spend_bundle, given.requested_payments)
       IN  \E ok \in LibraryOutcomes :
              /\ ctx' = [ctx EXCEPT ![c] = after]
              /\ handed' = [handed EXCEPT ![c] = <<given>>]
              /\ trace' = [trace EXCEPT ![c] = Append(@, Event("from_input_spend_bundle", 0, 0, ok))]
              /\ IF ok
                 THEN /\ offer' = [offer EXCEPT ![c] = <<[from_input_spend_bundle |-> term]>>]
                      /\ pc' = [pc EXCEPT ![c] = "to_spend_bundle"]
                      /\ UNCHANGED ret
                 ELSE /\ Return(c, Err(to_py_value_error("Offer::from_input_spend_bundle", <<term>>)))
                      /\ UNCHANGED offer
    /\ UNCHANGED <<args, spend_bundle, requested_payments, offer_spend_bundle>>

\* line 59
ToSpendBundle(c) ==
    /\ pc[c] = "to_spend_bundle"
    /\ LET term == [ctx |-> ctx[c], offer |-> offer[c][1]]
           after == Applied(ctx[c], "to_spend_bundle",
                            spend_bundle[c][1], requested_payments[c])
       IN  \E ok \in LibraryOutcomes :
              /\ ctx' = [ctx EXCEPT ![c] = after]
              /\ trace' = [trace EXCEPT ![c] = Append(@, Event("to_spend_bundle", 0, 0, ok))]
              /\ IF ok
                 THEN /\ offer_spend_bundle' =
                            [offer_spend_bundle EXCEPT ![c] = <<[to_spend_bundle |-> term]>>]
                      /\ pc' = [pc EXCEPT ![c] = "to_bytes"]
                      /\ UNCHANGED ret
                 ELSE /\ Return(c, Err(to_py_value_error("Offer::to_spend_bundle", <<term>>)))
                      /\ UNCHANGED offer_spend_bundle
    /\ UNCHANGED <<args, spend_bundle, requested_payments, handed, offer>>

\* line 60
ToBytes(c) ==
    /\ pc[c] = "to_bytes"
    /\ LET term == offer_spend_bundle[c][1]
       IN  \E ok \in LibraryOutcomes :
              /\ trace' = [trace EXCEPT ![c] = Append(@, Event("to_bytes", 0, 0, ok))]
              /\ IF ok
                 THEN Return(c, Ok(<<[to_bytes |-> term]>>))
                 ELSE Return(c, Err(to_py_value_error("SpendBundle::to_bytes", <<term>>)))
    /\ UNCHANGED <<args, spend_bundle, requested_payments, ctx, handed, offer,
                   offer_spend_bundle>>

(***************************************************************************)
(* validate_offer                                                          *)
(***************************************************************************)
\* line 25
DecodeOffer(c) ==
    /\ pc[c] = "start"
    /\ args[c].fn = "validate_offer"
    /\ LET r == decode_offer(args[c].offer)
       IN  /\ trace' = [trace EXCEPT ![c] = Append(@, Event("decode_offer", 0, 0, r.ok))]
           /\ IF r.ok
              THEN /\ spend_bundle' = [spend_bundle EXCEPT ![c] = r.val]
                   /\ pc' = [pc EXCEPT ![c] = "from_spend_bundle"]
                   /\ UNCHANGED ret
              ELSE /\ Return(c, Err(to_py_value_error("decode_offer", <<args[c].offer>>)))
                   /\ UNCHANGED spend_bundle
    /\ UNCHANGED <<args, requested_payments, ctx, handed, offer, offer_spend_bundle>>

\* lines 26-28
FromSpendBundle(c) ==
    /\ pc[c] = "from_spend_bundle"
    /\ LET fresh == SpendContext_new
           term == [ctx |-> fresh, spend_bundle |-> spend_bundle[c][1]]
           after == Applied(fresh, "from_spend_bundle", spend_bundle[c][1], RequestedPayments_new)
       IN  \E ok \in LibraryOutcomes :
              /\ ctx' = [ctx EXCEPT ![c] = after]
              /\ trace' = [trace EXCEPT ![c] = Append(@, Event("from_spend_bundle", 0, 0, ok))]
              /\ IF ok
                 THEN Return(c, Ok(<<>>))
                 ELSE Return(c, Err(to_py_value_error("Offer::from_spend_bundle", <<term>>)))
    /\ UNCHANGED <<args, spend_bundle, requested_payments, handed, offer, offer_spend_bundle>>

Next ==
    \/ \E c \in Calls : Decode(c)
    \/ \E c \in Calls : BuildRequestedPayments(c)
    \/ \E c \in Calls : Construct(c)
    \/ \E c \in Calls : ToSpendBundle(c)
    \/ \E c \in Calls : ToBytes(c)
    \/ \E c \in Calls : DecodeOffer(c)
    \/ \E c \in Calls : FromSpendBundle(c)

Spec == Init /\ [][Next]_vars

(***************************************************************************)
(* The properties.                                                         *)
(***************************************************************************)
IsAssemble(c) == args[c].fn = "from_input_spend_bundle_xch"
Returned(c) == pc[c] = "done" /\ IsAssemble(c)
BundleDecodes(c) == SpendBundle_from_bytes(args[c].spend_bundle_bytes).ok
Request(c) == args[c].requested_payments_xch

\* the identifiers of a request in sequence order: each entry's nonce, then
\* the puzzle hashes of its payments
IdsOfEntry(e, i) ==
    <<[field |-> "nonce", entry |-> i, payment |-> 0, raw |-> e[1]]>>
    \o [j \in 1..Len(e[2]) |->
           [field |-> "puzzle_hash", entry |-> i, payment |-> j, raw |-> e[2][j][1]]]

RECURSIVE IdsFrom(_, _)
IdsFrom(req, i) ==
    IF i > Len(req) THEN <<>> ELSE IdsOfEntry(req[i], i) \o IdsFrom(req, i + 1)

IdsOf(req) == IdsFrom(req, 1)
BadIn(ids) == { k \in 1..Len(ids) : Len(ids[k].raw) # 32 }
BadIds(req) == BadIn(IdsOf(req))
MinOf(S) == CHOOSE k \in S : \A m \in S : k <= m

LengthMessages == { "nonce must be 32 bytes", "puzzle_hash must be 32 bytes" }

\* the identifier steps of a trace, in order
RECURSIVE IdEvents(_)
IdEvents(t) ==
    IF t = <<>> THEN <<>>
    ELSE IF Head(t).ev \in {"nonce", "puzzle_hash"}
         THEN <<Head(t)>> \o IdEvents(Tail(t))
         ELSE IdEvents(Tail(t))

\* the buffer an identifier step examined
RawAt(req, e) == IF e.payment = 0 THEN req[e.entry][1] ELSE req[e.entry][2][e.payment][1]

(* C1: when the bundle bytes decode and some nonce or puzzle hash of the     *)
(* request is not 32 bytes long, the call returns the error "<field> must   *)
(* be 32 bytes" and no bytes; when all are 32 bytes long the request is     *)
(* handed on; and every parse_bytes32 the call made succeeded if and only   *)
(* if its buffer was exactly 32 bytes long.                                 *)
C1_LengthError ==
    \A c \in Calls :
        /\ (Returned(c) /\ BundleDecodes(c) /\ BadIds(Request(c)) # {}) =>
              /\ ret[c].status = "err"
              /\ ret[c].bytes = <<>>
              /\ ret[c].err[1].exc = "ValueError"
              /\ ret[c].err[1].msg \in LengthMessages
        /\ (Returned(c) /\ BundleDecodes(c) /\ BadIds(Request(c)) = {}) =>
              handed[c] # <<>>
        /\ IsAssemble(c) =>
              LET seen == IdEvents(trace[c])
              IN  \A k \in 1..Len(seen) :
                      seen[k].ok <=> (Len(RawAt(Request(c), seen[k])) = 32)

\* a call whose second entry carries a hash that is too long has returned
C1_Witness ==
    \E c \in Calls :
        /\ Returned(c) /\ BundleDecodes(c)
        /\ Len(Request(c)) = 2
        /\ Len(Request(c)[1][1]) = 32
        /\ Len(Request(c)[2][1]) = 32
        /\ Len(Request(c)[2][2]) = 1
        /\ Len(Request(c)[2][2][1][1]) = 33
        /\ ret[c].status = "err"
        /\ ret[c].err[1].msg = "puzzle_hash must be 32 bytes"

(* C5: the native-asset slot handed to Offer::from_input_spend_bundle holds *)
(* exactly one NotarizedPayment per entry of the request, in input order,   *)
(* with the entry's nonce and as many payments as the entry: entries with   *)
(* equal nonces are neither merged nor dropped.                             *)
C5_NoDeduplication ==
    \A c \in Calls :
        handed[c] # <<>> =>
            LET xch == handed[c][1].requested_payments.xch
            IN  /\ Len(xch) = Len(Request(c))
                /\ \A i \in 1..Len(xch) :
                      /\ xch[i].nonce = Request(c)[i][1]
                      /\ Len(xch[i].payments) = Len(Request(c)[i][2])

\* two identical entries, each with a payment, were handed on as two
C5_Witness ==
    \E c \in Calls :
        /\ handed[c] # <<>>
        /\ Len(Request(c)) = 2
        /\ Request(c)[1] = Request(c)[2]
        /\ Len(Request(c)[1][2]) = 1
        /\ Len(handed[c][1].requested_payments.xch) = 2
        /\ handed[c][1].requested_payments.xch[1] = handed[c][1].requested_payments.xch[2]

(* C9: what is handed to Offer::from_input_spend_bundle has entries in the  *)
(* native-asset slot only, with empty token slots and empty asset info;     *)
(* every Payment carries the puzzle hash and the amount supplied and no     *)
(* memo, in input order; and no amount makes the call stop before it hands  *)
(* the request on.                                                          *)
C9_PaymentsAsSupplied ==
    \A c \in Calls :
        /\ handed[c] # <<>> =>
              LET rp == handed[c][1].requested_payments
              IN  /\ rp.tokens = <<>>
                  /\ handed[c][1].asset_info = AssetInfo_new
                  /\ DOMAIN rp = {"xch", "tokens"}
                  /\ Len(rp.xch) = Len(Request(c))
                  /\ \A i \in 1..Len(Request(c)) :
                        rp.xch[i].payments =
                            [j \in 1..Len(Request(c)[i][2]) |->
                                [puzzle_hash |-> Request(c)[i][2][j][1],
                                 amount |-> Request(c)[i][2][j][2],
                                 memos |-> MemosNone]]
        /\ (Returned(c) /\ BundleDecodes(c) /\ BadIds(Request(c)) = {}) =>
              handed[c] # <<>>

\* an entry paying 0 and then 2^64 - 1 was handed on
C9_Witness ==
    \E c \in Calls :
        /\ handed[c] # <<>>
        /\ Len(Request(c)) = 1
        /\ Len(Request(c)[1][2]) = 2
        /\ Request(c)[1][2][1][2] = U64Zero
        /\ Request(c)[1][2][2][2] = U64Max
        /\ handed[c][1].requested_payments.xch[1].payments[1].amount = U64Zero
        /\ handed[c][1].requested_payments.xch[1].payments[2].amount = U64Max

(* C10: the bundle is decoded before any identifier is examined, so bytes   *)
(* that do not decode give the decoder's error whatever the identifiers     *)
(* are; the identifiers are then examined in sequence order up to the first *)
(* one that is not 32 bytes long, whose field the error names; and once a   *)
(* check has failed nothing is handed to Offer::from_input_spend_bundle and *)
(* no bytes are returned.                                                   *)
C10_ErrorPrecedence ==
    \A c \in Calls :
        IsAssemble(c) =>
            /\ trace[c] # <<>> => trace[c][1].ev = "decode"
            /\ (Returned(c) /\ ~BundleDecodes(c)) =>
                  /\ ret[c].status = "err"
                  /\ ret[c].err[1].origin # <<>>
                  /\ ret[c].err[1].origin[1].call = "SpendBundle::from_bytes"
                  /\ IdEvents(trace[c]) = <<>>
                  /\ handed[c] = <<>>
                  /\ ret[c].bytes = <<>>
            /\ (Returned(c) /\ BundleDecodes(c) /\ BadIds(Request(c)) # {}) =>
                  LET ids == IdsOf(Request(c))
                      first == MinOf(BadIn(ids))
                      seen == IdEvents(trace[c])
                  IN  /\ ret[c].status = "err"
                      /\ ret[c].err[1].msg = ids[first].field \o " must be 32 bytes"
                      /\ Len(seen) = first
                      /\ \A k \in 1..first :
                            /\ seen[k].ev = ids[k].field
                            /\ seen[k].entry = ids[k].entry
                            /\ seen[k].payment = ids[k].payment
                      /\ handed[c] = <<>>
                      /\ ret[c].bytes = <<>>
                      /\ \A k \in 1..Len(trace[c]) :
                            trace[c][k].ev \in {"decode", "nonce", "puzzle_hash"}

\* an entry whose nonce and whose puzzle hash are both malformed, after a
\* well-formed entry: the error names the nonce
C10_Witness ==
    \E c \in Calls :
        /\ Returned(c) /\ BundleDecodes(c)
        /\ Len(Request(c)) = 2
        /\ Len(Request(c)[1][1]) = 32
        /\ Len(Request(c)[1][2]) = 1
        /\ Len(Request(c)[1][2][1][1]) = 32
        /\ Len(Request(c)[2][1]) # 32
        /\ Len(Request(c)[2][2]) = 1
        /\ Len(Request(c)[2][2][1][1]) # 32
        /\ ret[c].err[1].msg = "nonce must be 32 bytes"
        /\ Len(IdEvents(trace[c])) = 3

=============================================================================
